---- MODULE Spec2Model ----
(***************************************************************************)
(* r2http: a Cloudflare Worker that serves an R2 bucket over HTTP GET      *)
(* behind HTTP Basic authentication, with index-file fallback.             *)
(*                                                                         *)
(* Text that the worker parses (the Authorization header, the secrets, the *)
(* INDEX binding, URL paths and storage keys) is modelled as a sequence of *)
(* character codes, so that split, trim, toLowerCase, atob and joinPath    *)
(* are computed character by character as the code computes them.  Text    *)
(* that is only compared or emitted (the method, response bodies, header   *)
(* names) is a TLA+ string.                                                *)
(***************************************************************************)
EXTENDS Integers, Sequences, FiniteSets, TLC

VARIABLES env, request, pc, path, gets, indexes, cursor, error, outcome

vars == <<env, request, pc, path, gets, indexes, cursor, error, outcome>>

(***************************************************************************)
(* Bounds of the model.                                                    *)
(***************************************************************************)
\* longest URL pathname a request carries
MaxPathLen == 3
\* largest number of objects the bucket holds
MaxObjects == 2

(***************************************************************************)
(* Optional values (undefined / null of the runtime).                      *)
(***************************************************************************)
None == [has |-> FALSE, val |-> <<>>]

Some(v) == [has |-> TRUE, val |-> v]

(***************************************************************************)
(* String primitives of the runtime, on sequences of character codes.      *)
(***************************************************************************)
SeqsUpTo(S, n) == UNION {[1..k -> S] : k \in 0..n}

startsWith(s, c) == Len(s) > 0 /\ s[1] = c

endsWith(s, c) == Len(s) > 0 /\ s[Len(s)] = c

\* s.substring(from), from counted from 0
substringFrom(s, from) == SubSeq(s, from + 1, Len(s))

\* s.substring(from, to), both counted from 0, to exclusive
substring(s, from, to) == SubSeq(s, from + 1, to)

\* position of the first sep in s, 0 when there is none
indexOf(s, sep) ==
  IF \E i \in 1..Len(s) : s[i] = sep
  THEN CHOOSE i \in 1..Len(s) : s[i] = sep /\ \A j \in 1..(i - 1) : s[j] # sep
  ELSE 0

RECURSIVE split(_, _)
\* s.split(sep): every sep separates; "".split(sep) is [""]
split(s, sep) ==
  LET i == indexOf(s, sep)
  IN IF i = 0 THEN <<s>>
     ELSE <<SubSeq(s, 1, i - 1)>> \o split(SubSeq(s, i + 1, Len(s)), sep)

\* the ASCII white space String.prototype.trim removes
WhiteSpace == {9, 10, 11, 12, 13, 32}

RECURSIVE trim(_)
trim(s) ==
  IF Len(s) = 0 THEN s
  ELSE IF s[1] \in WhiteSpace THEN trim(Tail(s))
  ELSE IF s[Len(s)] \in WhiteSpace THEN trim(SubSeq(s, 1, Len(s) - 1))
  ELSE s

toLowerCase(s) ==
  [i \in 1..Len(s) |-> IF s[i] >= 65 /\ s[i] <= 90 THEN s[i] + 32 ELSE s[i]]

(***************************************************************************)
(* Base64 of the runtime: btoa (used by clients, as in the tests) and the  *)
(* forgiving decoder atob, which throws on malformed input.                *)
(***************************************************************************)
\* the character of a 6-bit value
B64Char(v) ==
  IF v < 26 THEN 65 + v
  ELSE IF v < 52 THEN 97 + (v - 26)
  ELSE IF v < 62 THEN 48 + (v - 52)
  ELSE IF v = 62 THEN 43
  ELSE 47

\* the 6-bit value of a character, -1 outside the alphabet
B64Val(c) ==
  IF c >= 65 /\ c <= 90 THEN c - 65
  ELSE IF c >= 97 /\ c <= 122 THEN c - 97 + 26
  ELSE IF c >= 48 /\ c <= 57 THEN c - 48 + 52
  ELSE IF c = 43 THEN 62
  ELSE IF c = 47 THEN 63
  ELSE -1

RECURSIVE btoa(_)
btoa(s) ==
  IF Len(s) = 0 THEN <<>>
  ELSE IF Len(s) = 1 THEN
    LET n == s[1] * 65536
    IN <<B64Char(n \div 262144), B64Char((n \div 4096) % 64), 61, 61>>
  ELSE IF Len(s) = 2 THEN
    LET n == s[1] * 65536 + s[2] * 256
    IN <<B64Char(n \div 262144), B64Char((n \div 4096) % 64),
         B64Char((n \div 64) % 64), 61>>
  ELSE
    LET n == s[1] * 65536 + s[2] * 256 + s[3]
    IN <<B64Char(n \div 262144), B64Char((n \div 4096) % 64),
         B64Char((n \div 64) % 64), B64Char(n % 64)>>
       \o btoa(SubSeq(s, 4, Len(s)))

\* ASCII white space the decoder removes first
B64WhiteSpace == {9, 10, 12, 13, 32}

\* up to two trailing "=" are removed when the length is a multiple of 4
stripPadding(d) ==
  IF Len(d) % 4 # 0 \/ Len(d) = 0 THEN d
  ELSE IF d[Len(d)] # 61 THEN d
  ELSE IF d[Len(d) - 1] # 61 THEN SubSeq(d, 1, Len(d) - 1)
  ELSE SubSeq(d, 1, Len(d) - 2)

RECURSIVE decodeGroups(_)
decodeGroups(d) ==
  IF Len(d) = 0 THEN <<>>
  ELSE IF Len(d) = 2 THEN
    <<(B64Val(d[1]) * 64 + B64Val(d[2])) \div 16>>
  ELSE IF Len(d) = 3 THEN
    LET m == (B64Val(d[1]) * 4096 + B64Val(d[2]) * 64 + B64Val(d[3])) \div 4
    IN <<m \div 256, m % 256>>
  ELSE
    LET n == B64Val(d[1]) * 262144 + B64Val(d[2]) * 4096
             + B64Val(d[3]) * 64 + B64Val(d[4])
    IN <<n \div 65536, (n \div 256) % 256, n % 256>>
       \o decodeGroups(SubSeq(d, 5, Len(d)))

\* atob(data): [threw |-> TRUE] stands for the InvalidCharacterError
atob(data) ==
  LET d == stripPadding(SelectSeq(data, LAMBDA c : c \notin B64WhiteSpace))
  IN IF Len(d) % 4 = 1 \/ \E i \in 1..Len(d) : B64Val(d[i]) = -1
     THEN [threw |-> TRUE, val |-> <<>>]
     ELSE [threw |-> FALSE, val |-> decodeGroups(d)]

(***************************************************************************)
(* Errors and responses.                                                   *)
(***************************************************************************)
NoError == [name |-> "none", status |-> 0, message |-> "", headers |-> {}]

\* new HttpError(status, description, headers)
HttpError(status, description, headers) ==
  [name |-> "HttpError", status |-> status, message |-> description,
   headers |-> headers]

\* an exception raised by the runtime or the storage binding
RuntimeError(name, message) ==
  [name |-> name, status |-> 0, message |-> message, headers |-> {}]

NoResponse == [status |-> 0, body |-> "", headers |-> {}]

\* HttpError.toResponse()
toResponse(err) ==
  [status |-> err.status,
   body |-> ToString(err.status) \o " - " \o err.message,
   headers |-> err.headers]

\* variant: only HttpError is caught, any other error leaves fetch
catchError_Rethrows(err) ==
  IF err.name = "HttpError"
  THEN [kind |-> "response", response |-> toResponse(err)]
  ELSE [kind |-> "rejected", response |-> NoResponse]

\* the catch block of fetch: what the handler's promise settles to
catchError(err) ==
  IF err.name = "HttpError"
  THEN [kind |-> "response", response |-> toResponse(err)]
  ELSE [kind |-> "response",
        response |-> [status |-> 500, body |-> "Oops! It's server side fault",
                      headers |-> {}]]

(***************************************************************************)
(* The pipeline stages of fetch.                                           *)
(***************************************************************************)
\* variant: HEAD is let through like GET
assertGetMethod_AllowsHead(req) ==
  IF req.method \notin {"GET", "HEAD"}
  THEN HttpError(405, "Method Not Allowed", {})
  ELSE NoError

assertGetMethod(req) ==
  IF req.method # "GET" THEN HttpError(405, "Method Not Allowed", {})
  ELSE NoError

\* "basic"
BasicLower == <<98, 97, 115, 105, 99>>

\* the credential of the Authorization header; defined = FALSE is the
\* undefined result, threw = TRUE the exception atob raises
extractBasicCredential(req) ==
  LET undefined == [threw |-> FALSE, defined |-> FALSE,
                    username |-> <<>>, password |-> <<>>]
      authHeader == req.authorization
  IN IF ~authHeader.has \/ Len(authHeader.val) = 0 THEN undefined
     ELSE LET parts == split(authHeader.val, 32)
          IN IF Len(parts) # 2 THEN undefined
             ELSE LET mode == parts[1]
                      encoded == parts[2]
                  IN IF Len(mode) = 0 \/ Len(encoded) = 0
                        \/ toLowerCase(mode) # BasicLower
                     THEN undefined
                     ELSE LET decoded == atob(encoded)
                              fields == split(decoded.val, 58)
                              username == fields[1]
                              \* a missing second field is undefined, which
                              \* the emptiness test below treats like ""
                              password == IF Len(fields) >= 2 THEN fields[2]
                                          ELSE <<>>
                          IN IF decoded.threw
                             THEN [threw |-> TRUE, defined |-> FALSE,
                                   username |-> <<>>, password |-> <<>>]
                             ELSE IF Len(username) = 0 \/ Len(password) = 0
                             THEN undefined
                             ELSE [threw |-> FALSE, defined |-> TRUE,
                                   username |-> username,
                                   password |-> password]

\* variant: only the username is compared
authenticateBasic_UsernameOnly(req, e) ==
  LET credential == extractBasicCredential(req)
  IN IF credential.threw
     THEN RuntimeError("InvalidCharacterError", "atob: invalid base64")
     ELSE IF ~credential.defined \/ credential.username # e.USERNAME
     THEN HttpError(401, "Unauthorized", {<<"WWW-Authenticate", "Basic">>})
     ELSE NoError

authenticateBasic(req, e) ==
  LET credential == extractBasicCredential(req)
  IN IF credential.threw
     THEN RuntimeError("InvalidCharacterError", "atob: invalid base64")
     ELSE IF ~credential.defined
             \/ credential.username # e.USERNAME
             \/ credential.password # e.PASSWORD
     THEN HttpError(401, "Unauthorized", {<<"WWW-Authenticate", "Basic">>})
     ELSE NoError

\* url.pathname.substring(1)
getRequestPath(req) == substringFrom(req.pathname, 1)

\* the keys an object may be stored under:
\* "b", "b/", "b/i", "b/j", "i", "j"
KeyUniverse ==
  <<(<<98>>), <<98, 47>>, <<98, 47, 105>>, <<98, 47, 106>>, <<105>>, <<106>>>>

KeyId(key) == CHOOSE n \in 1..Len(KeyUniverse) : KeyUniverse[n] = key

\* the object stored under key: its content, integrity tag and metadata
R2Object(key) ==
  [key |-> key,
   body |-> "content#" \o ToString(KeyId(key)),
   httpEtag |-> "etag#" \o ToString(KeyId(key)),
   httpMetadata |-> {<<"content-type", "text/plain">>}]

\* r2.get(key) when the binding answers: the object or null
r2get(bucket, key) ==
  IF key \in bucket THEN [has |-> TRUE, val |-> R2Object(key)]
  ELSE [has |-> FALSE, val |-> R2Object(KeyUniverse[1])]

\* variant: the names are not trimmed
indexNames_Untrimmed(indexFiles) == split(indexFiles, 58)

\* indexFiles.split(":").map((name) => name.trim())
indexNames(indexFiles) ==
  LET names == split(indexFiles, 58)
  IN [i \in 1..Len(names) |-> trim(names[i])]

joinPath(parent, child) ==
  LET first == IF endsWith(parent, 47) THEN parent ELSE parent \o <<47>>
      second == IF startsWith(child, 47)
                THEN substring(child, 0, Len(child) - 1)
                ELSE child
      out == first \o second
  IN IF startsWith(out, 47) THEN substringFrom(out, 1) ELSE out

\* variant: the loop does not stop at a hit
indexLoopReturns_Never(object) == FALSE

\* "if (object) return object" of the index loop
indexLoopReturns(object) == object.has

\* variant: the etag header is not set
createFileResponse_NoEtag(object) ==
  [status |-> 200, body |-> object.body, headers |-> object.httpMetadata]

createFileResponse(object) ==
  [status |-> 200,
   body |-> object.body,
   headers |-> {<<"etag", object.httpEtag>>} \cup object.httpMetadata]

(***************************************************************************)
(* Inputs: the bindings of the worker and the requests it receives.        *)
(***************************************************************************)
\* "me" / "***" (the secrets of the tests) and "u" / "p:q"
Credentials ==
  {[USERNAME |-> <<109, 101>>, PASSWORD |-> <<42, 42, 42>>],
   [USERNAME |-> <<117>>, PASSWORD |-> <<112, 58, 113>>]}

\* the INDEX binding: unset, "", "i: j", "j:i", "/i"
IndexConfigs ==
  {None, Some(<<>>), Some(<<105, 58, 32, 106>>), Some(<<106, 58, 105>>),
   Some(<<47, 105>>)}

Buckets ==
  {b \in SUBSET {KeyUniverse[n] : n \in 1..Len(KeyUniverse)} :
     Cardinality(b) <= MaxObjects}

Environments ==
  {[USERNAME |-> c.USERNAME, PASSWORD |-> c.PASSWORD, INDEX |-> i, r2 |-> b] :
     c \in Credentials, i \in IndexConfigs, b \in Buckets}

Methods == {"GET", "POST", "HEAD"}

\* URL pathnames over "/" and "b"; a pathname starts with "/"
Pathnames ==
  {p \in SeqsUpTo({47, 98}, MaxPathLen) : Len(p) >= 1 /\ p[1] = 47}

\* `Basic ${btoa(`${username}:${password}`)}`, as a client builds it
getAuthorizationHeader(username, password) ==
  <<66, 97, 115, 105, 99, 32>> \o btoa(username \o <<58>> \o password)

\* Authorization headers a GET request is tried with
AuthorizationHeaders ==
  LET me == <<109, 101>>
      stars == <<42, 42, 42>>
      good == btoa(me \o <<58>> \o stars)
  IN { None,
       \* Basic base64("me:***"), Basic base64("u:p:q")
       Some(getAuthorizationHeader(me, stars)),
       Some(getAuthorizationHeader(<<117>>, <<112, 58, 113>>)),
       \* basic base64("me:***")
       Some(<<98, 97, 115, 105, 99, 32>> \o good),
       \* "Basic" alone, "Basic  <two spaces>base64", "X base64"
       Some(<<66, 97, 115, 105, 99>>),
       Some(<<66, 97, 115, 105, 99, 32, 32>> \o good),
       Some(<<88, 32>> \o good),
       \* "Basic a" and "Basic !!!!": not base64
       Some(<<66, 97, 115, 105, 99, 32, 97>>),
       Some(<<66, 97, 115, 105, 99, 32, 33, 33, 33, 33>>),
       \* Basic base64("me"), base64(":***"), base64("me:")
       Some(<<66, 97, 115, 105, 99, 32>> \o btoa(me)),
       Some(getAuthorizationHeader(<<>>, stars)),
       Some(getAuthorizationHeader(me, <<>>)),
       \* Basic base64("me:x"), base64("x:***"), base64("me:***:x")
       Some(getAuthorizationHeader(me, <<120>>)),
       Some(getAuthorizationHeader(<<120>>, stars)),
       Some(getAuthorizationHeader(me, stars \o <<58, 120>>)) }

\* Authorization headers a request of another method is tried with:
\* absent, valid for "me" / "***", and malformed ("Basic a")
OtherMethodHeaders ==
  {None, Some(getAuthorizationHeader(<<109, 101>>, <<42, 42, 42>>)),
   Some(<<66, 97, 115, 105, 99, 32, 97>>)}

Requests ==
  {[method |-> m, pathname |-> p, authorization |-> a] :
     m \in {"GET"}, p \in Pathnames, a \in AuthorizationHeaders}
  \cup
  {[method |-> m, pathname |-> p, authorization |-> a] :
     m \in Methods \ {"GET"}, p \in Pathnames, a \in OtherMethodHeaders}

NoRequest == [method |-> "", pathname |-> <<47>>, authorization |-> None]

NoOutcome == [kind |-> "none", response |-> NoResponse]

(***************************************************************************)
(* The worker: one request at a time runs through fetch.                   *)
(***************************************************************************)
Init ==
  /\ env \in Environments
  /\ request = NoRequest
  /\ pc = "idle"
  /\ path = <<>>
  /\ gets = <<>>
  /\ indexes = <<>>
  /\ cursor = 0
  /\ error = NoError
  /\ outcome = NoOutcome

\* a throw inside the try block: control goes to the catch block, which
\* settles the handler
Throw(err) ==
  /\ error' = err
  /\ outcome' = catchError(err)
  /\ pc' = "done"

\* "return createFileResponse(object)"
Return(object) ==
  /\ outcome' = [kind |-> "response", response |-> createFileResponse(object)]
  /\ pc' = "done"
  /\ UNCHANGED error

\* the last get of the log gets its result
Settle(result) == gets' = [gets EXCEPT ![Len(gets)].result = result]

\* the runtime calls fetch(request, env)
Receive(req) ==
  /\ pc = "idle"
  /\ request' = req
  /\ pc' = "assertGetMethod"
  /\ UNCHANGED <<env, path, gets, indexes, cursor, error, outcome>>

AssertGetMethod ==
  /\ pc = "assertGetMethod"
  /\ LET err == assertGetMethod(request)
     IN IF err # NoError THEN Throw(err)
        ELSE pc' = "authenticateBasic" /\ UNCHANGED <<error, outcome>>
  /\ UNCHANGED <<env, request, path, gets, indexes, cursor>>

AuthenticateBasic ==
  /\ pc = "authenticateBasic"
  /\ LET err == authenticateBasic(request, env)
     IN IF err # NoError THEN Throw(err)
        ELSE pc' = "downloadR2Object" /\ UNCHANGED <<error, outcome>>
  /\ UNCHANGED <<env, request, path, gets, indexes, cursor>>

\* getRequestPath, then the direct r2.get is issued and fetch awaits it
DownloadR2Object ==
  /\ pc = "downloadR2Object"
  /\ path' = getRequestPath(request)
  /\ gets' = <<[key |-> path', index |-> 0, result |-> "pending"]>>
  /\ pc' = "awaitDirect"
  /\ UNCHANGED <<env, request, indexes, cursor, error, outcome>>

\* the direct get answers: the object is served, or the fallback starts
DirectGetReturns ==
  /\ pc = "awaitDirect"
  /\ LET object == r2get(env.r2, gets[Len(gets)].key)
     IN IF object.has
        THEN Settle("hit") /\ Return(object.val)
        ELSE /\ Settle("miss")
             /\ pc' = "downloadIndexFile"
             /\ UNCHANGED <<error, outcome>>
  /\ UNCHANGED <<env, request, path, indexes, cursor>>

\* downloadIndexFile starts: the INDEX binding is split into names
DownloadIndexFile ==
  /\ pc = "downloadIndexFile"
  /\ IF ~env.INDEX.has
     THEN /\ Throw(RuntimeError("TypeError", "indexFiles is undefined"))
          /\ UNCHANGED <<indexes, cursor>>
     ELSE /\ indexes' = indexNames(env.INDEX.val)
          /\ cursor' = 1
          /\ pc' = "indexLoop"
          /\ UNCHANGED <<error, outcome>>
  /\ UNCHANGED <<env, request, path, gets>>

\* one turn of the loop: the next candidate is queried, or the loop ends,
\* downloadIndexFile returns undefined and fetch throws the 404
IndexLoop ==
  /\ pc = "indexLoop"
  /\ IF cursor <= Len(indexes)
     THEN /\ gets' = Append(gets, [key |-> joinPath(path, indexes[cursor]),
                                   index |-> cursor, result |-> "pending"])
          /\ pc' = "awaitIndex"
          /\ UNCHANGED <<error, outcome>>
     ELSE /\ Throw(HttpError(404, "Not found", {}))
          /\ UNCHANGED gets
  /\ UNCHANGED <<env, request, path, indexes, cursor>>

\* an index get answers: the object is served, or the loop goes on
IndexGetReturns ==
  /\ pc = "awaitIndex"
  /\ LET object == r2get(env.r2, gets[Len(gets)].key)
     IN /\ Settle(IF object.has THEN "hit" ELSE "miss")
        /\ IF indexLoopReturns(object)
           THEN Return(object.val) /\ UNCHANGED cursor
           ELSE /\ cursor' = cursor + 1
                /\ pc' = "indexLoop"
                /\ UNCHANGED <<error, outcome>>
  /\ UNCHANGED <<env, request, path, indexes>>

\* the storage binding rejects the awaited get
R2GetThrows ==
  /\ pc \in {"awaitDirect", "awaitIndex"}
  /\ Settle("throw")
  /\ Throw(RuntimeError("R2Error", "storage failure"))
  /\ UNCHANGED <<env, request, path, indexes, cursor>>

\* the response is handed to the runtime; the worker waits for a request
Finish ==
  /\ pc = "done"
  /\ request' = NoRequest
  /\ pc' = "idle"
  /\ path' = <<>>
  /\ gets' = <<>>
  /\ indexes' = <<>>
  /\ cursor' = 0
  /\ error' = NoError
  /\ outcome' = NoOutcome
  /\ UNCHANGED env

Next ==
  \/ \E req \in Requests : Receive(req)
  \/ AssertGetMethod
  \/ AuthenticateBasic
  \/ DownloadR2Object
  \/ DirectGetReturns
  \/ DownloadIndexFile
  \/ IndexLoop
  \/ IndexGetReturns
  \/ R2GetThrows
  \/ Finish

Spec == Init /\ [][Next]_vars

(***************************************************************************)
(* Vocabulary of the properties.                                           *)
(***************************************************************************)
\* fetch has settled
Done == pc = "done"

\* the storage key of the request: the pathname less its first character
RequestKey == SubSeq(request.pathname, 2, Len(request.pathname))

\* the request is a GET that passed authentication
AuthorizedGet ==
  request.method = "GET" /\ authenticateBasic(request, env) = NoError

\* the storage binding answered every get of this request
NoStorageFailure == \A i \in 1..Len(gets) : gets[i].result # "throw"

\* the response fetch returned is the file response of the object at key
Serves(key) ==
  /\ outcome.kind = "response"
  /\ outcome.response.status = 200
  /\ outcome.response.body = R2Object(key).body
  /\ outcome.response.headers =
       {<<"etag", R2Object(key).httpEtag>>} \cup R2Object(key).httpMetadata

\* the response fetch returned is the plain-text error of this status
Fails(status, body) ==
  /\ outcome.kind = "response"
  /\ outcome.response.status = status
  /\ outcome.response.body = body

\* C1: a request whose method is not "GET" is answered 405 with body
\* "405 - Method Not Allowed", whatever its path and Authorization header;
\* it never reaches authentication or storage.
C1_NonGetIs405 ==
  (pc # "idle" /\ request.method # "GET") =>
    /\ pc \in {"assertGetMethod", "done"}
    /\ gets = <<>>
    /\ Done => Fails(405, "405 - Method Not Allowed")

\* a POST without credentials was answered 405
C1_Witness ==
  /\ Done
  /\ request.method = "POST"
  /\ ~request.authorization.has
  /\ Fails(405, "405 - Method Not Allowed")

\* the credential the specification's parse finds in the Authorization
\* header: two tokens split on one space, scheme "basic" in any case,
\* base64 decoded, split on the FIRST ":" only
DocumentedCredential(req) ==
  LET none == [defined |-> FALSE, username |-> <<>>, password |-> <<>>]
      h == req.authorization
  IN IF ~h.has THEN none
     ELSE LET parts == split(h.val, 32)
          IN IF Len(parts) # 2 \/ toLowerCase(parts[1]) # BasicLower THEN none
             ELSE LET decoded == atob(parts[2])
                      colon == indexOf(decoded.val, 58)
                  IN IF decoded.threw \/ colon = 0 THEN none
                     ELSE [defined |-> TRUE,
                           username |-> SubSeq(decoded.val, 1, colon - 1),
                           password |-> SubSeq(decoded.val, colon + 1,
                                               Len(decoded.val))]

\* the request carries a valid Basic credential matching the configured one
DocumentedValid(req, e) ==
  LET c == DocumentedCredential(req)
  IN /\ c.defined
     /\ Len(c.username) > 0
     /\ Len(c.password) > 0
     /\ c.username = e.USERNAME
     /\ c.password = e.PASSWORD

\* C2: a GET request that lacks a valid, matching Basic credential (header
\* absent, not two tokens, scheme not "basic", base64 decoding fails, empty
\* username or password, or a mismatch) is answered 401 with body
\* "401 - Unauthorized" and the header WWW-Authenticate: Basic.
C2_InvalidCredentialIs401 ==
  (Done /\ request.method = "GET" /\ ~DocumentedValid(request, env)) =>
    /\ Fails(401, "401 - Unauthorized")
    /\ <<"WWW-Authenticate", "Basic">> \in outcome.response.headers

\* C3: an authorized GET whose key (the pathname less one leading "/") holds
\* an object is answered 200 with that object's content, its etag and its
\* metadata headers, after the single direct get, for every INDEX binding.
C3_DirectHitServed ==
  (Done /\ AuthorizedGet /\ NoStorageFailure /\ RequestKey \in env.r2) =>
    /\ Serves(RequestKey)
    /\ Len(gets) = 1
    /\ gets[1].key = RequestKey

\* a direct hit was served while the INDEX binding is unset
C3_Witness ==
  /\ Done
  /\ AuthorizedGet
  /\ RequestKey \in env.r2
  /\ ~env.INDEX.has
  /\ Serves(RequestKey)

\* the configured index file names: INDEX split on ":", each entry trimmed;
\* none when the binding is unset
ConfiguredNames ==
  IF env.INDEX.has
  THEN LET names == split(env.INDEX.val, 58)
       IN [i \in 1..Len(names) |-> trim(names[i])]
  ELSE <<>>

\* the positions of the configured names that, joined onto the request key,
\* name a stored object
StoredCandidates ==
  {i \in 1..Len(ConfiguredNames) :
     joinPath(RequestKey, ConfiguredNames[i]) \in env.r2}

\* C4: an authorized GET with no object at its key and none at any index
\* candidate is answered 404 with body "404 - Not found", for every INDEX
\* binding: a list of names, an empty string, or unset.
C4_NotFoundIs404 ==
  (/\ Done
   /\ AuthorizedGet
   /\ NoStorageFailure
   /\ RequestKey \notin env.r2
   /\ StoredCandidates = {}) => Fails(404, "404 - Not found")

\* C5: an authorized GET with no object at its key, when some configured
\* index name joined onto the key names a stored object, is answered 200
\* with the object of the FIRST such name in configured order.
C5_FirstIndexServed ==
  (/\ Done
   /\ AuthorizedGet
   /\ NoStorageFailure
   /\ RequestKey \notin env.r2
   /\ StoredCandidates # {}) =>
    LET first == CHOOSE i \in StoredCandidates :
                   \A j \in StoredCandidates : i <= j
    IN Serves(joinPath(RequestKey, ConfiguredNames[first]))

\* GET /b with the names "i", "j" (written "i: j") was served from the
\* second candidate, b/j
C5_Witness ==
  /\ Done
  /\ AuthorizedGet
  /\ request.pathname = <<47, 98>>
  /\ env.INDEX = Some(<<105, 58, 32, 106>>)
  /\ <<98, 47, 105>> \notin env.r2
  /\ Serves(<<98, 47, 106>>)

\* GET / was served from the root candidate "i"
C5_WitnessRoot ==
  /\ Done
  /\ AuthorizedGet
  /\ request.pathname = <<47>>
  /\ Serves(<<105>>)

\* C6: fetch never lets a failure escape.  Whatever the request and whatever
\* the storage binding does, fetch settles by returning one response: a 200
\* file response of a stored object, or the plain-text 401, 404 or 405, or
\* the 500 with body "Oops! It's server side fault"; every error that is
\* not an HttpError yields that 500, with no header and no text of the error.
C6_NoFailureEscapes ==
  /\ pc # "done" => outcome = NoOutcome
  /\ Done =>
       /\ outcome.kind = "response"
       /\ \/ \E k \in env.r2 : Serves(k)
          \/ Fails(401, "401 - Unauthorized")
          \/ Fails(404, "404 - Not found")
          \/ Fails(405, "405 - Method Not Allowed")
          \/ Fails(500, "Oops! It's server side fault")
       /\ error.name = "none" => outcome.response.status = 200
       /\ error.name \notin {"none", "HttpError"} =>
            outcome.response = [status |-> 500,
                                body |-> "Oops! It's server side fault",
                                headers |-> {}]

\* the storage binding raised on an index lookup and fetch answered 500
C6_Witness ==
  /\ Done
  /\ error.name = "R2Error"
  /\ Len(gets) >= 2
  /\ gets[Len(gets)].result = "throw"
  /\ Fails(500, "Oops! It's server side fault")

\* C7: a GET whose header is "Basic " + base64(u ":" p), for the configured
\* non-empty username u without ":" and the configured non-empty password p
\* (which may contain ":"), passes authentication: it is never answered 401.
C7_ConfiguredCredentialAccepted ==
  (/\ Done
   /\ request.method = "GET"
   /\ Len(env.USERNAME) > 0
   /\ indexOf(env.USERNAME, 58) = 0
   /\ Len(env.PASSWORD) > 0
   /\ request.authorization =
        Some(getAuthorizationHeader(env.USERNAME, env.PASSWORD)))
  => outcome.response.status # 401

\* C8: within one request the storage gets are issued one after another,
\* the direct key first and then the index candidates in configured order,
\* and none is issued after a get returned an object (or while one is
\* pending): only the last get of the log can be other than a miss, and a
\* served response is the object of that last get.
C8_GetsSequentialStopAtHit ==
  /\ \A i \in 1..(Len(gets) - 1) : gets[i].result = "miss"
  /\ \A i \in 1..Len(gets) :
       IF i = 1
       THEN gets[i].index = 0 /\ gets[i].key = RequestKey
       ELSE /\ gets[i].index = i - 1
            /\ i - 1 <= Len(ConfiguredNames)
            /\ gets[i].key = joinPath(RequestKey, ConfiguredNames[i - 1])
  /\ Cardinality({i \in 1..Len(gets) : gets[i].result = "hit"}) <= 1
  /\ (Done /\ outcome.response.status = 200) =>
       /\ gets[Len(gets)].result = "hit"
       /\ Serves(gets[Len(gets)].key)
  /\ (Len(gets) > 0 /\ gets[Len(gets)].result = "hit") => Done

\* the first of two candidates was served and the second, also stored, was
\* never queried
C8_Witness ==
  /\ Done
  /\ Len(ConfiguredNames) = 2
  /\ Len(gets) = 2
  /\ gets[2].result = "hit"
  /\ joinPath(RequestKey, ConfiguredNames[2]) \in env.r2

\* the sequence of index file names of the configuration: empty when INDEX
\* is unset or the empty string
DocumentedIndexFileNames ==
  IF ~env.INDEX.has \/ env.INDEX.val = <<>> THEN <<>> ELSE ConfiguredNames

\* C9: a request makes at most 1 + len(indexFileNames) storage gets; with an
\* empty or unset index configuration the fallback is disabled and a request
\* makes at most the one direct get.
C9_GetsBounded ==
  /\ Len(gets) <= 1 + Len(DocumentedIndexFileNames)
  /\ (~env.INDEX.has \/ env.INDEX.val = <<>>) => Len(gets) <= 1

\* the join of the specification: the file name less a leading "/" when the
\* parent is empty, else the parent less a trailing "/", one "/", and the
\* file name less a leading "/"
DocumentedJoin(parentKey, fileName) ==
  LET name == IF startsWith(fileName, 47) THEN Tail(fileName) ELSE fileName
      parent == IF endsWith(parentKey, 47)
                THEN SubSeq(parentKey, 1, Len(parentKey) - 1)
                ELSE parentKey
  IN IF parentKey = <<>> THEN name ELSE parent \o <<47>> \o name

\* C10: every index candidate the worker queries is joinPath(parentKey,
\* fileName) = the documented join of the request key and the file name:
\* one "/" at the join and no character of the file name dropped.  Stated
\* for the plain inputs: a key that does not begin with "/" and a file name
\* that is not empty.
C10_JoinPathAsDocumented ==
  \A i \in 2..Len(gets) :
    LET fileName == indexes[gets[i].index]
    IN (~startsWith(path, 47) /\ fileName # <<>>) =>
         gets[i].key = DocumentedJoin(path, fileName)

\* C11: no storage access without authorization.  A storage get is issued
\* only for a GET whose Authorization header yields a credential equal to
\* the configured username and password; nothing is read before the method
\* and credential checks have run, and a request answered 405 or 401 has
\* issued no get at all, whatever the bucket holds.
C11_NoStorageBeforeAuthorization ==
  LET credential == extractBasicCredential(request)
      validated == /\ ~credential.threw
                   /\ credential.defined
                   /\ credential.username = env.USERNAME
                   /\ credential.password = env.PASSWORD
  IN /\ (\/ gets # <<>>
         \/ pc \in {"downloadR2Object", "awaitDirect", "downloadIndexFile",
                    "indexLoop", "awaitIndex"})
          => (request.method = "GET" /\ validated)
     /\ pc \in {"assertGetMethod", "authenticateBasic"} => gets = <<>>
     /\ (Done /\ outcome.response.status \in {401, 405}) => gets = <<>>

\* a GET with a wrong password for a key the bucket holds was answered 401
\* without any storage get
C11_Witness ==
  /\ Done
  /\ request.method = "GET"
  /\ request.authorization.has
  /\ RequestKey \in env.r2
  /\ Fails(401, "401 - Unauthorized")
  /\ gets = <<>>

====
